---- MODULE Spec2Model ----
(***************************************************************************)
(* Model of the live order-book core of coinnect:                          *)
(*   - LiveAggregatedOrderBook (src/src/types.rs): two BTreeMaps keyed by  *)
(*     price, the depth-limited view order_book(), the mutation API        *)
(*     reset_asks / reset_bids / update_asks / update_bids;                *)
(*   - BittrexStreamingApi::handle (src/src/bittrex/streaming_api.rs):     *)
(*     the frame handler that feeds the books and dispatches events.       *)
(* Prices and volumes are BigDecimal in the source; they are modelled as   *)
(* integers, which keeps the exact ordering and the is_zero() test.        *)
(* A BTreeMap<Price,(Price,Volume)> is a function from the set of stored   *)
(* prices to <<price, volume>> tuples.  The timestamp of a view            *)
(* (Utc::now()) takes no part in any comparison and is left out.           *)
(***************************************************************************)
EXTENDS Integers, Sequences, FiniteSets, TLC

----------------------------------------------------------------------------
(* Bounds *)

\* number of distinct prices of the call-sequence specification (99, 100, ...)
NumPrices == 3
\* largest volume of an incoming level
MaxVol == 3
\* longest iterator handed to one reset_* / update_* call
MaxLen == 2
\* number of calls made on one book in the call-sequence specification
MaxCalls == 2
\* number of distinct prices of the deep-book specification (1, 2, ...)
NumDeepPrices == 6
\* longest iterator of the deep-book specification
MaxDeepLen == 1

Prices == 99..(98 + NumPrices)
Volumes == 0..MaxVol
Levels == Prices \X Volumes

\* every sequence of length at most n over S
SeqsUpTo(S, n) == UNION {[1..k -> S] : k \in 0..n}

Iters == SeqsUpTo(Levels, MaxLen)

\* The deep-book specification fills a book past its depth.  Its snapshots
\* carry one level per price, the volume fixed by the price; its deltas
\* either carry that level again or remove it (volume zero).
DeepPrices == 1..NumDeepPrices
DeepLevel(p) == <<p, 1 + (p % 2)>>
DeepSnapshots == SeqsUpTo({DeepLevel(p) : p \in DeepPrices}, MaxDeepLen)
DeepDeltas ==
  SeqsUpTo({DeepLevel(p) : p \in DeepPrices} \cup {<<p, 0>> : p \in DeepPrices},
           MaxDeepLen)

----------------------------------------------------------------------------
(* BTreeMap and iterator adapters *)

Min(S) == CHOOSE x \in S : \A y \in S : x <= y

RECURSIVE AscKeys(_)
\* the keys of a BTreeMap in iteration order (ascending)
AscKeys(S) == IF S = {} THEN <<>> ELSE <<Min(S)>> \o AscKeys(S \ {Min(S)})

\* BTreeMap::iter().map(|(_, v)| v.clone())
iter(m) == LET ks == AscKeys(DOMAIN m) IN [i \in 1..Len(ks) |-> m[ks[i]]]

\* Iterator::rev
rev(s) == [i \in 1..Len(s) |-> s[Len(s) + 1 - i]]

\* Iterator::take
take(s, n) == IF Len(s) <= n THEN s ELSE SubSeq(s, 1, n)

\* BTreeMap::entry(kp.0).or_insert(kp)
or_insert(m, kp) == IF kp[1] \in DOMAIN m THEN m ELSE (kp[1] :> kp) @@ m

\* BTreeMap::remove
remove(m, k) == [p \in DOMAIN m \ {k} |-> m[p]]

EmptyMap == [p \in {} |-> <<0, 0>>]

----------------------------------------------------------------------------
(* LiveAggregatedOrderBook *)

DEFAULT_BOOK_DEPTH == 5

default(pair) ==
  [depth |-> DEFAULT_BOOK_DEPTH, pair |-> pair,
   asks_by_price |-> EmptyMap, bids_by_price |-> EmptyMap,
   last_asks |-> <<>>, last_bids |-> <<>>]

\* order_book without take(depth)
order_book_untruncated(b) ==
  [pair |-> b.pair,
   asks |-> rev(iter(b.asks_by_price)),
   bids |-> rev(rev(iter(b.bids_by_price)))]

\* order_book without the final rev() of the bids
order_book_bids_not_reordered(b) ==
  [pair |-> b.pair,
   asks |-> rev(take(iter(b.asks_by_price), b.depth)),
   bids |-> take(rev(iter(b.bids_by_price)), b.depth)]

\* order_book taking the bids from the low end of the map
order_book_lowest_bids(b) ==
  [pair |-> b.pair,
   asks |-> rev(take(iter(b.asks_by_price), b.depth)),
   bids |-> rev(take(iter(b.bids_by_price), b.depth))]

order_book(b) ==
  [pair |-> b.pair,
   asks |-> rev(take(iter(b.asks_by_price), b.depth)),
   bids |-> rev(take(rev(iter(b.bids_by_price)), b.depth))]

\* Orderbook::avg_price: <<>> is None; the quotient by the BigDecimal 2.0 is
\* exact and is kept as the fraction num / den
avg_price(ob) ==
  IF ob.asks = <<>> \/ ob.bids = <<>>
  THEN <<>>
  ELSE <<[num |-> ob.asks[1][1] + ob.bids[1][1], den |-> 2]>>

\* latest_order_book without the comparison with the cache
latest_order_book_unsuppressed(b) ==
  LET latest == order_book(b) IN
  [book |-> [b EXCEPT !.last_asks = latest.asks, !.last_bids = latest.bids],
   result |-> <<latest>>]

\* latest_order_book caching the asks only
latest_order_book_asks_cached(b) ==
  LET latest == order_book(b) IN
  IF latest.asks = b.last_asks /\ latest.bids = b.last_bids
  THEN [book |-> b, result |-> <<>>]
  ELSE [book |-> [b EXCEPT !.last_asks = latest.asks], result |-> <<latest>>]

latest_order_book(b) ==
  LET latest == order_book(b) IN
  IF latest.asks = b.last_asks /\ latest.bids = b.last_bids
  THEN [book |-> b, result |-> <<>>]
  ELSE [book |-> [b EXCEPT !.last_asks = latest.asks, !.last_bids = latest.bids],
        result |-> <<latest>>]

RECURSIVE reset_asks_overwrite(_, _)
\* reset_asks with insert() in place of entry().or_insert()
reset_asks_overwrite(b, it) ==
  IF it = <<>> THEN b
  ELSE reset_asks_overwrite(
         [b EXCEPT !.asks_by_price = (it[1][1] :> it[1]) @@ @], Tail(it))

RECURSIVE reset_asks(_, _)
reset_asks(b, it) ==
  IF it = <<>> THEN b
  ELSE reset_asks([b EXCEPT !.asks_by_price = or_insert(@, it[1])], Tail(it))

RECURSIVE reset_bids(_, _)
reset_bids(b, it) ==
  IF it = <<>> THEN b
  ELSE reset_bids([b EXCEPT !.bids_by_price = or_insert(@, it[1])], Tail(it))

\* update_ask with insert() in place of entry().or_insert()
update_ask_overwrite(b, kp) ==
  [b EXCEPT !.asks_by_price =
     IF kp[2] = 0 THEN remove(@, kp[1]) ELSE (kp[1] :> kp) @@ @]

\* update_ask with clear() in place of remove()
update_ask_clear_on_zero(b, kp) ==
  [b EXCEPT !.asks_by_price =
     IF kp[2] = 0 THEN EmptyMap ELSE or_insert(@, kp)]

update_ask(b, kp) ==
  [b EXCEPT !.asks_by_price =
     IF kp[2] = 0 THEN remove(@, kp[1]) ELSE or_insert(@, kp)]

update_bid(b, kp) ==
  [b EXCEPT !.bids_by_price =
     IF kp[2] = 0 THEN remove(@, kp[1]) ELSE or_insert(@, kp)]

RECURSIVE update_asks(_, _)
update_asks(b, it) ==
  IF it = <<>> THEN b ELSE update_asks(update_ask(b, it[1]), Tail(it))

RECURSIVE update_bids(_, _)
\* the loop body of update_bids calls update_ask (types.rs:171)
update_bids(b, it) ==
  IF it = <<>> THEN b ELSE update_bids(update_ask(b, it[1]), Tail(it))

----------------------------------------------------------------------------
(* State *)

VARIABLES
  book,     \* one LiveAggregatedOrderBook driven through its public API
  prev,     \* book as it was before the last call
  call,     \* the last call made on book: [op, arg, ret]
  ncalls,   \* number of calls made on book
  view,     \* <<v>>: the Orderbook the last call, order_book(), returned
  order_book_pairs,  \* BittrexStreamingApi.order_book_pairs
  trade_pairs,       \* BittrexStreamingApi.trade_pairs
  books,             \* BittrexStreamingApi.books: pair -> LiveAggregatedOrderBook
  inbox,             \* recipient -> the envelopes sent to it so far, in order
  panicked,          \* handle() panicked (an unwrap() on an Err)
  frame,             \* the last frame handed to handle()
  prevBooks,         \* books as they were before that frame
  sent,              \* the events that frame produced, in dispatch order
  nframes,           \* number of frames handled
  gone,              \* the recipients (by position) whose actor has stopped
  sends,             \* the do_send calls made for that frame, in order
  phase,             \* where the connection supervisor stands
  conn_timeout,      \* the conn_timeout DefaultWsActor::new was given: <<>> or <<ms>>
  conn_backoff,      \* DefaultWsActor.conn_backoff, the ExponentialBackoff
  queries,           \* the queries written on the latest successful connect
  connects,          \* number of successful connects
  failures,          \* number of failed connect attempts
  timeouts,          \* number of BackoffConnectionTimeout errors returned
  actors,            \* number of actors handed to Supervisor::start
  delay,             \* <<ms>>: what next_backoff() returned last, <<>> for None
  waited,            \* <<ms>>: the wait that followed the last failed attempt,
                     \* <<>> when none was made since the connection was lost
  item,              \* the last item of the inbound stream handled
  idle               \* heartbeat intervals gone by since the peer last sent

bookVars == <<book, prev, call, ncalls, view>>
apiVars == <<order_book_pairs, trade_pairs, books, inbox, panicked,
             frame, prevBooks, sent, nframes, gone, sends>>
supVars == <<phase, conn_timeout, conn_backoff, queries, connects, failures,
             timeouts, actors, delay, waited, item, idle>>
vars == <<bookVars, apiVars, supVars>>

\* the pair of the stand-alone book
BookPair == "BTC_USDT"

NoCall == [op |-> "default", arg |-> <<>>, ret |-> <<>>]

NoFrame ==
  [method |-> "none",
   payload |-> [ok |-> FALSE, MarketName |-> "", Sells |-> <<>>,
                Buys |-> <<>>, Fills |-> <<>>]]

FreshBook ==
  /\ book = default(BookPair)
  /\ prev = default(BookPair)
  /\ call = NoCall
  /\ ncalls = 0
  /\ view = <<>>

\* no streaming api constructed
NoApi ==
  /\ order_book_pairs = {}
  /\ trade_pairs = {}
  /\ books = <<>>
  /\ inbox = <<>>
  /\ panicked = FALSE
  /\ frame = NoFrame
  /\ prevBooks = <<>>
  /\ sent = <<>>
  /\ nframes = 0
  /\ gone = {}
  /\ sends = <<>>

\* the ExponentialBackoff of the backoff crate as ExponentialBackoff::default()
\* builds it, times in milliseconds
INITIAL_INTERVAL_MILLIS == 500
MAX_INTERVAL_MILLIS == 60000

ExponentialBackoff_default ==
  [current_interval |-> INITIAL_INTERVAL_MILLIS,
   elapsed |-> 0,
   max_elapsed_time |-> <<>>]

\* no connection supervised
NoSup ==
  /\ phase = "none"
  /\ conn_timeout = <<>>
  /\ conn_backoff = ExponentialBackoff_default
  /\ queries = <<>>
  /\ connects = 0
  /\ failures = 0
  /\ timeouts = 0
  /\ actors = 0
  /\ delay = <<>>
  /\ waited = <<>>
  /\ item = "none"
  /\ idle = 0

InitBook == FreshBook /\ NoApi /\ NoSup

----------------------------------------------------------------------------
(* Calls on one book, at most MaxCalls of them, each recorded with its      *)
(* argument and the book it found.                                          *)

Called(op, arg, b, ret) ==
  /\ ncalls < MaxCalls
  /\ prev' = book
  /\ book' = b
  /\ call' = [op |-> op, arg |-> arg, ret |-> ret]
  /\ ncalls' = ncalls + 1
  /\ view' = IF op = "order_book" THEN ret ELSE <<>>
  /\ UNCHANGED <<apiVars, supVars>>

ResetAsks(it) == Called("reset_asks", it, reset_asks(book, it), <<>>)

ResetBids(it) == Called("reset_bids", it, reset_bids(book, it), <<>>)

UpdateAsks(it) == Called("update_asks", it, update_asks(book, it), <<>>)

UpdateBids(it) == Called("update_bids", it, update_bids(book, it), <<>>)

UpdateAsk(kp) == Called("update_ask", <<kp>>, update_ask(book, kp), <<>>)

UpdateBid(kp) == Called("update_bid", <<kp>>, update_bid(book, kp), <<>>)

OrderBook == Called("order_book", <<>>, book, <<order_book(book)>>)

LatestOrderBook ==
  Called("latest_order_book", <<>>,
         latest_order_book(book).book, latest_order_book(book).result)

NextBook ==
  \/ \E it \in Iters : ResetAsks(it)
  \/ \E it \in Iters : ResetBids(it)
  \/ \E it \in Iters : UpdateAsks(it)
  \/ \E it \in Iters : UpdateBids(it)
  \/ \E kp \in Levels : UpdateAsk(kp)
  \/ \E kp \in Levels : UpdateBid(kp)
  \/ OrderBook
  \/ LatestOrderBook

\* any sequence of MaxCalls calls on one freshly constructed book
SpecBook == InitBook /\ [][NextBook]_vars

----------------------------------------------------------------------------
(* The deep book: any number of calls, over enough prices to fill the maps  *)
(* past the depth.  Only the book and the view last returned are kept.      *)

Mutated(b) ==
  /\ book' = b
  /\ view' = <<>>
  /\ UNCHANGED <<prev, call, ncalls>>
  /\ UNCHANGED <<apiVars, supVars>>

DeepResetAsks(it) == Mutated(reset_asks(book, it))

DeepResetBids(it) == Mutated(reset_bids(book, it))

DeepUpdateAsks(it) == Mutated(update_asks(book, it))

DeepUpdateBids(it) == Mutated(update_bids(book, it))

DeepUpdateBid(kp) == Mutated(update_bid(book, kp))

DeepOrderBook ==
  /\ view' = <<order_book(book)>>
  /\ UNCHANGED <<book, prev, call, ncalls>>
  /\ UNCHANGED <<apiVars, supVars>>

NextDeep ==
  \/ \E it \in DeepSnapshots : DeepResetAsks(it)
  \/ \E it \in DeepSnapshots : DeepResetBids(it)
  \/ \E it \in DeepDeltas : DeepUpdateAsks(it)
  \/ \E it \in DeepDeltas : DeepUpdateBids(it)
  \/ \E p \in DeepPrices : DeepUpdateBid(<<p, 0>>)
  \/ DeepOrderBook

SpecDeep == InitBook /\ [][NextDeep]_vars

----------------------------------------------------------------------------
(* BittrexStreamingApi: construction and the frame handler *)

\* number of frames handed to handle()
MaxFrames == 2
\* longest Sells / Buys list of one frame
MaxFrameLen == 1
\* most fills of one market delta
MaxFills == 1

Pairs == {"BTC_USDT", "ETH_USDT"}
Markets == {"USDT-BTC", "USDT-ETH", "USDT-XYZ"}
Recipients == <<"r1", "r2", "r3">>

\* bittrex::utils::get_pair_enum: the pair of a market name, if any
get_pair_enum(market) ==
  CASE market = "USDT-BTC" -> <<"BTC_USDT">>
    [] market = "USDT-ETH" -> <<"ETH_USDT">>
    [] OTHER -> <<>>

\* the (Rate, Quantity) entries a frame can carry
FrameLevels == {<<100, 1>>, <<101, 2>>, <<100, 0>>}
FrameIters == SeqsUpTo(FrameLevels, MaxFrameLen)
FillLists ==
  SeqsUpTo({[Rate |-> 100, Quantity |-> 1, OrderType |-> "BUY", TimeStamp |-> 1]},
           MaxFills)

\* a payload that base64-decodes, inflates and parses to the expected record
Decoded ==
  [ok : {TRUE}, MarketName : Markets, Sells : FrameIters, Buys : FrameIters,
   Fills : FillLists]

\* a payload on which deflate returns Err
Corrupt == NoFrame.payload

Frames ==
  [method : {"uE"}, payload : Decoded \cup {Corrupt}]
    \cup [method : {"QE2"},
          payload : {d \in Decoded : d.Fills = <<>>} \cup {Corrupt}]
    \cup [method : {"uS", "xx"},
          payload : {d \in Decoded : /\ d.Sells = <<<<100, 1>>>>
                                     /\ d.Buys = <<>>
                                     /\ d.Fills = <<>>} \cup {Corrupt}]

\* books.entry(pair).or_insert(default_book)
entry_or_default(bks, pair) ==
  IF pair \in DOMAIN bks THEN bks ELSE (pair :> default(pair)) @@ bks

LiveOrderbook(ob) == [type |-> "LiveOrderbook", ob |-> ob]

\* TradeType::from(String): the side named by the string, whatever its case
TradeType_from(s) ==
  CASE s \in {"sell", "SELL", "Sell"} -> "Sell"
    [] s \in {"buy", "BUY", "Buy"} -> "Buy"
    [] OTHER -> "None"

LiveTrade(pair, fill) ==
  [type |-> "LiveTrade", event_ms |-> fill.TimeStamp, pair |-> pair,
   amount |-> fill.Quantity, price |-> fill.Rate,
   tt |-> TradeType_from(fill.OrderType)]

LiveEventEnveloppe(le) == <<"Bittrex", le>>

\* the "uE" arm taking the view before it applies the changes of the delta
market_delta_stale_view(bks, ob_pairs, tr_pairs, pair, delta) ==
  LET bks1 == entry_or_default(bks, pair)
      agg == latest_order_book(bks1[pair])
      obEvents == IF pair \in ob_pairs
                  THEN [i \in 1..Len(agg.result) |-> LiveOrderbook(agg.result[i])]
                  ELSE <<>>
      trEvents == IF pair \in tr_pairs
                  THEN [i \in 1..Len(delta.Fills) |-> LiveTrade(pair, delta.Fills[i])]
                  ELSE <<>>
  IN [books |-> IF pair \in ob_pairs
                THEN [bks1 EXCEPT ![pair] =
                        update_bids(update_asks(agg.book, delta.Sells), delta.Buys)]
                ELSE bks,
      events |-> obEvents \o trEvents]

\* the "uE" arm pushing the trades before the order-book event
market_delta_trades_first(bks, ob_pairs, tr_pairs, pair, delta) ==
  LET bks1 == entry_or_default(bks, pair)
      agg == latest_order_book(
               update_bids(update_asks(bks1[pair], delta.Sells), delta.Buys))
      obEvents == IF pair \in ob_pairs
                  THEN [i \in 1..Len(agg.result) |-> LiveOrderbook(agg.result[i])]
                  ELSE <<>>
      trEvents == IF pair \in tr_pairs
                  THEN [i \in 1..Len(delta.Fills) |-> LiveTrade(pair, delta.Fills[i])]
                  ELSE <<>>
  IN [books |-> IF pair \in ob_pairs
                THEN [bks1 EXCEPT ![pair] = agg.book] ELSE bks,
      events |-> trEvents \o obEvents]

\* the "uE" arm of handle() for a decoded delta of a known pair
market_delta(bks, ob_pairs, tr_pairs, pair, delta) ==
  LET bks1 == entry_or_default(bks, pair)
      agg == latest_order_book(
               update_bids(update_asks(bks1[pair], delta.Sells), delta.Buys))
      obEvents == IF pair \in ob_pairs
                  THEN [i \in 1..Len(agg.result) |-> LiveOrderbook(agg.result[i])]
                  ELSE <<>>
      trEvents == IF pair \in tr_pairs
                  THEN [i \in 1..Len(delta.Fills) |-> LiveTrade(pair, delta.Fills[i])]
                  ELSE <<>>
  IN [books |-> IF pair \in ob_pairs
                THEN [bks1 EXCEPT ![pair] = agg.book] ELSE bks,
      events |-> obEvents \o trEvents]

\* the "QE*" arm starting again from an empty books map
exchange_state_clears_others(bks, pair, state) ==
  LET agg == reset_bids(reset_asks(default(pair), state.Sells), state.Buys)
  IN [books |-> (pair :> agg),
      events |-> <<LiveOrderbook(order_book(agg))>>]

\* the "QE*" arm of handle() for a decoded exchange state of a known pair
exchange_state(bks, pair, state) ==
  LET bks1 == entry_or_default(bks, pair)
      agg == reset_bids(reset_asks(bks1[pair], state.Sells), state.Buys)
  IN [books |-> [bks1 EXCEPT ![pair] = agg],
      events |-> <<LiveOrderbook(order_book(agg))>>]

\* handle without the early return: a market name of no known pair is
\* taken for the first pair
handle_unknown_market_kept(bks, ob_pairs, tr_pairs, f) ==
  LET quiet == [panic |-> FALSE, books |-> bks, events |-> <<>>]
      known == get_pair_enum(f.payload.MarketName)
      pair == IF known = <<>> THEN <<"BTC_USDT">> ELSE known
  IN CASE f.method = "uE" ->
            IF ~f.payload.ok THEN [quiet EXCEPT !.panic = TRUE]
            ELSE LET r == market_delta(bks, ob_pairs, tr_pairs, pair[1], f.payload)
                 IN [panic |-> FALSE, books |-> r.books, events |-> r.events]
       [] f.method = "uS" -> quiet
       [] f.method = "QE2" ->
            IF ~f.payload.ok THEN [quiet EXCEPT !.panic = TRUE]
            ELSE LET r == exchange_state(bks, pair[1], f.payload)
                 IN [panic |-> FALSE, books |-> r.books, events |-> r.events]
       [] OTHER -> quiet

\* handle taking a decoded summary delta for a market delta
handle_summary_as_delta(bks, ob_pairs, tr_pairs, f) ==
  LET quiet == [panic |-> FALSE, books |-> bks, events |-> <<>>]
      pair == get_pair_enum(f.payload.MarketName)
  IN CASE f.method \in {"uE", "uS"} ->
            IF ~f.payload.ok
            THEN [quiet EXCEPT !.panic = (f.method = "uE")]
            ELSE IF pair = <<>> THEN quiet
            ELSE LET r == market_delta(bks, ob_pairs, tr_pairs, pair[1], f.payload)
                 IN [panic |-> FALSE, books |-> r.books, events |-> r.events]
       [] f.method = "QE2" ->
            IF ~f.payload.ok THEN [quiet EXCEPT !.panic = TRUE]
            ELSE IF pair = <<>> THEN quiet
            ELSE LET r == exchange_state(bks, pair[1], f.payload)
                 IN [panic |-> FALSE, books |-> r.books, events |-> r.events]
       [] OTHER -> quiet

\* handle(method, message): [panic, books, events]
handle(bks, ob_pairs, tr_pairs, f) ==
  LET quiet == [panic |-> FALSE, books |-> bks, events |-> <<>>]
      pair == get_pair_enum(f.payload.MarketName)
  IN CASE f.method = "uE" ->
            IF ~f.payload.ok THEN [quiet EXCEPT !.panic = TRUE]
            ELSE IF pair = <<>> THEN quiet
            ELSE LET r == market_delta(bks, ob_pairs, tr_pairs, pair[1], f.payload)
                 IN [panic |-> FALSE, books |-> r.books, events |-> r.events]
       [] f.method = "uS" -> quiet
       [] f.method = "QE2" ->
            IF ~f.payload.ok THEN [quiet EXCEPT !.panic = TRUE]
            ELSE IF pair = <<>> THEN quiet
            ELSE LET r == exchange_state(bks, pair[1], f.payload)
                 IN [panic |-> FALSE, books |-> r.books, events |-> r.events]
       [] OTHER -> quiet

\* the dispatch loop walking the recipients from the last registered to the
\* first
do_sends_last_registered_first(gn, events) ==
  LET n == Len(Recipients) IN
  [j \in 1..(Len(events) * n) |->
     [to |-> n - ((j - 1) % n),
      msg |-> LiveEventEnveloppe(events[((j - 1) \div n) + 1]),
      ok |-> (n - ((j - 1) % n)) \notin gn]]

\* the do_send calls of the dispatch loop, in order: event by event and,
\* for one event, recipient by recipient; a call on a stopped recipient
\* returns Err
do_sends(gn, events) ==
  LET n == Len(Recipients) IN
  [j \in 1..(Len(events) * n) |->
     [to |-> ((j - 1) % n) + 1,
      msg |-> LiveEventEnveloppe(events[((j - 1) \div n) + 1]),
      ok |-> (((j - 1) % n) + 1) \notin gn]]

\* the dispatch loop of handle(): r.do_send(..).unwrap() panics on the first
\* call that returns Err, the calls before it have been delivered
dispatch(inb, gn, events) ==
  LET all == do_sends(gn, events)
      failing == {j \in 1..Len(all) : ~all[j].ok}
      made == IF failing = {} THEN all ELSE SubSeq(all, 1, Min(failing))
      delivered(i) == {j \in 1..Len(made) : made[j].to = i /\ made[j].ok}
      nth(i, k) == CHOOSE j \in delivered(i) :
                     Cardinality({h \in delivered(i) : h < j}) = k - 1
  IN [panic |-> failing # {},
      sends |-> made,
      inbox |-> [i \in 1..Len(Recipients) |->
                   inb[i] \o [k \in 1..Cardinality(delivered(i)) |->
                                made[nth(i, k)].msg]]]

\* the api new_bot builds: one default book per order-book pair, nothing
\* sent yet
ApiBuilt ==
  /\ order_book_pairs \in SUBSET Pairs
  /\ trade_pairs \in SUBSET Pairs
  /\ books = [p \in order_book_pairs |-> default(p)]
  /\ inbox = [i \in 1..Len(Recipients) |-> <<>>]
  /\ panicked = FALSE
  /\ frame = NoFrame
  /\ prevBooks = books
  /\ sent = <<>>
  /\ nframes = 0
  /\ gone = {}
  /\ sends = <<>>

\* the handler as new_bot leaves it, the connection not modelled
Init == FreshBook /\ ApiBuilt /\ NoSup

\* handle() on one frame: the books updated, each event sent to each
\* recipient
Handled(f) ==
  /\ ~panicked
  /\ nframes < MaxFrames
  /\ LET r == handle(books, order_book_pairs, trade_pairs, f)
         d == dispatch(inbox, gone, r.events)
     IN /\ panicked' = (r.panic \/ d.panic)
        /\ books' = r.books
        /\ sent' = r.events
        /\ sends' = d.sends
        /\ inbox' = d.inbox
  /\ frame' = f
  /\ prevBooks' = books
  /\ nframes' = nframes + 1
  /\ UNCHANGED <<order_book_pairs, trade_pairs, gone>>
  /\ UNCHANGED bookVars

\* one frame handled
Handle(f) == Handled(f) /\ UNCHANGED supVars

Next == \E f \in Frames : Handle(f)

Spec == Init /\ [][Next]_vars

----------------------------------------------------------------------------
(* The handler with recipients whose actors may stop *)

\* deltas and snapshots of one market with at most one ask and one fill
FanoutFrames ==
  {f \in Frames : /\ f.payload.ok
                  /\ f.payload.MarketName = "USDT-BTC"
                  /\ f.payload.Buys = <<>>
                  /\ Len(f.payload.Sells) <= 1
                  /\ Len(f.payload.Fills) <= 1}

\* the actor behind recipient i stops: do_send to it returns Err from now on
RecipientGone(i) ==
  /\ ~panicked
  /\ i \notin gone
  /\ gone' = gone \cup {i}
  /\ UNCHANGED <<order_book_pairs, trade_pairs, books, inbox, panicked,
                 frame, prevBooks, sent, nframes, sends>>
  /\ UNCHANGED <<bookVars, supVars>>

NextFanout ==
  \/ \E f \in FanoutFrames : Handle(f)
  \/ \E i \in 1..Len(Recipients) : RecipientGone(i)

SpecFanout == Init /\ [][NextFanout]_vars

----------------------------------------------------------------------------
(* The handler on market deltas that carry several fills, with recipients  *)
(* whose actors may stop                                                    *)

\* most fills of one market delta here
MaxTradeFills == 2

\* the fills such a delta can carry: a buy and a later sell at another rate
TradeFills ==
  {[Rate |-> 100, Quantity |-> 1, OrderType |-> "BUY", TimeStamp |-> 1],
   [Rate |-> 101, Quantity |-> 2, OrderType |-> "SELL", TimeStamp |-> 2]}

\* decoded market deltas of the two known markets, with at most one ask
TradeFrames ==
  [method : {"uE"},
   payload : [ok : {TRUE}, MarketName : {"USDT-BTC", "USDT-ETH"},
              Sells : SeqsUpTo({<<100, 1>>}, 1), Buys : {<<>>},
              Fills : SeqsUpTo(TradeFills, MaxTradeFills)]]

NextTrades ==
  \/ \E f \in TradeFrames : Handle(f)
  \/ \E i \in 1..Len(Recipients) : RecipientGone(i)

SpecTrades == Init /\ [][NextTrades]_vars

----------------------------------------------------------------------------
(* The connection supervisor, DefaultWsActor of src/src/exchange_bot.rs,    *)
(* with the bittrex handler behind it: DefaultWsActor::new is the initial   *)
(* connect loop new_bot waits for, and the subscription step the actor      *)
(* runs when a stream starts (handle_started) is the handler's on_connect.  *)
(* Times are in milliseconds.  The clock of the backoff policy counts the    *)
(* waits between connect attempts: an attempt takes no time of its own and  *)
(* the time spent connected, after a reset of the policy, is left out.      *)

\* failed connect attempts of one run
MaxFailures == 3
\* successful connects of one run
MaxConnects == 2
\* heartbeat intervals counted while the peer is silent
MaxIdle == 2
\* the clock of the backoff policy stops at this value
MaxClock == 3000

\* the conn_timeout values DefaultWsActor::new is given
ConnTimeouts == {<<>>, <<500>>}

\* task::sleep(Duration::from_secs(1)) of the initial connect loop
SleepMillis == 1000

\* bittrex::utils::get_pair_string: the market name of a pair
get_pair_string(pair) ==
  CASE pair = "BTC_USDT" -> "USDT-BTC"
    [] pair = "ETH_USDT" -> "USDT-ETH"

\* the orders in which iterating a HashSet can yield its elements
RECURSIVE IterOrders(_)
IterOrders(S) ==
  IF S = {} THEN {<<>>}
  ELSE UNION {{<<x>> \o o : o \in IterOrders(S \ {x})} : x \in S}

HubQuery(method, pair) == [method |-> method, arg |-> get_pair_string(pair)]

\* on_connect() subscribing for the trade pairs only
on_connect_trade_pairs_only(tr_pairs, ob_pairs) ==
  IF tr_pairs # {} \/ ob_pairs # {}
  THEN {[i \in 1..Len(o) |-> HubQuery("SubscribeToExchangeDeltas", o[i])] :
          o \in IterOrders(tr_pairs)}
  ELSE {<<>>}

\* on_connect() subscribing channel by channel: the trade pairs, then the
\* order-book pairs
on_connect_per_channel(tr_pairs, ob_pairs) ==
  {[i \in 1..Len(o) |-> HubQuery("SubscribeToExchangeDeltas", o[i])] :
     o \in {t \o b : t \in IterOrders(tr_pairs), b \in IterOrders(ob_pairs)}}

\* on_connect(): the query vectors it can return
on_connect(tr_pairs, ob_pairs) ==
  IF tr_pairs # {} \/ ob_pairs # {}
  THEN {[i \in 1..Len(o) |-> HubQuery("SubscribeToExchangeDeltas", o[i])] :
          o \in IterOrders(tr_pairs \cup ob_pairs)}
  ELSE {<<>>}

\* new_bot once the client is connected: the snapshot queries it sends
query_exchange_states(ob_pairs) ==
  {[i \in 1..Len(o) |-> HubQuery("QueryExchangeState", o[i])] :
     o \in IterOrders(ob_pairs)}

\* ExponentialBackoff::next_backoff: None once max_elapsed_time is exceeded,
\* else the current interval randomized by half of it either way (its two
\* ends are taken), the interval growing by the multiplier 1.5 up to the
\* maximum
next_backoff(b) ==
  IF b.max_elapsed_time # <<>> /\ b.elapsed > b.max_elapsed_time[1]
  THEN {[delay |-> <<>>, backoff |-> b]}
  ELSE {[delay |-> <<d>>,
         backoff |-> [b EXCEPT !.current_interval =
                        Min({(@ * 3) \div 2, MAX_INTERVAL_MILLIS})]] :
          d \in {b.current_interval - (b.current_interval \div 2),
                 b.current_interval + (b.current_interval \div 2)}}

\* ExponentialBackoff::reset
reset(b) ==
  [b EXCEPT !.current_interval = INITIAL_INTERVAL_MILLIS, !.elapsed = 0]

\* ms milliseconds go by on the clock of the policy
later(b, ms) == [b EXCEPT !.elapsed = Min({@ + ms, MaxClock})]

\* the frame the peer sends in the supervised run: a snapshot with one ask
SupFrames ==
  {f \in FanoutFrames : /\ f.method = "QE2"
                        /\ f.payload.Sells = <<<<100, 1>>>>}

\* new_bot has built the api and DefaultWsActor::new has made its first
\* connect attempt
InitSup ==
  /\ FreshBook
  /\ ApiBuilt
  /\ phase = "connecting"
  /\ conn_timeout \in ConnTimeouts
  /\ conn_backoff = [ExponentialBackoff_default EXCEPT
                       !.max_elapsed_time = conn_timeout]
  /\ queries = <<>>
  /\ connects = 0
  /\ failures = 0
  /\ timeouts = 0
  /\ actors = 0
  /\ delay = <<>>
  /\ waited = <<>>
  /\ item = "none"
  /\ idle = 0

\* DefaultWsActor::new, Ok arm: the policy unbounded and reset, the actor
\* handed to Supervisor::start, its stream started (the subscription step),
\* and new_bot's snapshot queries
ConnectOk ==
  /\ phase = "connecting"
  /\ connects < MaxConnects
  /\ phase' = "connected"
  /\ conn_backoff' = reset([conn_backoff EXCEPT !.max_elapsed_time = <<>>])
  /\ actors' = actors + 1
  /\ \E subs \in on_connect(trade_pairs, order_book_pairs) :
       \E qes \in query_exchange_states(order_book_pairs) :
         queries' = subs \o qes
  /\ connects' = connects + 1
  /\ item' = "none"
  /\ idle' = 0
  /\ UNCHANGED <<conn_timeout, failures, timeouts, delay, waited>>
  /\ UNCHANGED <<bookVars, apiVars>>

\* ConnectErr reporting the exhausted policy and going on with the loop
ConnectErr_retry_after_timeout ==
  /\ phase = "connecting"
  /\ failures < MaxFailures
  /\ failures' = failures + 1
  /\ \E r \in next_backoff(conn_backoff) :
       /\ delay' = r.delay
       /\ conn_backoff' = r.backoff
       /\ timeouts' = IF r.delay # <<>> THEN timeouts ELSE timeouts + 1
  /\ phase' = "sleeping"
  /\ waited' = <<>>
  /\ UNCHANGED <<conn_timeout, queries, connects, actors, item, idle>>
  /\ UNCHANGED <<bookVars, apiVars>>

\* DefaultWsActor::new, Err arm: sleep and retry while next_backoff() gives a
\* delay, else return BackoffConnectionTimeout
ConnectErr ==
  /\ phase = "connecting"
  /\ failures < MaxFailures
  /\ failures' = failures + 1
  /\ \E r \in next_backoff(conn_backoff) :
       /\ delay' = r.delay
       /\ conn_backoff' = r.backoff
       /\ IF r.delay # <<>>
          THEN phase' = "sleeping" /\ timeouts' = timeouts
          ELSE phase' = "failed" /\ timeouts' = timeouts + 1
  /\ waited' = <<>>
  /\ UNCHANGED <<conn_timeout, queries, connects, actors, item, idle>>
  /\ UNCHANGED <<bookVars, apiVars>>

\* the sleep of the initial connect loop is over: the next attempt is made
Slept ==
  /\ phase = "sleeping"
  /\ phase' = "connecting"
  /\ waited' = <<SleepMillis>>
  /\ conn_backoff' = later(conn_backoff, SleepMillis)
  /\ UNCHANGED <<conn_timeout, queries, connects, failures, timeouts, actors,
                 delay, item, idle>>
  /\ UNCHANGED <<bookVars, apiVars>>

\* StreamHandler::handle, Frame::Text: the handler handles the frame
Text(f) ==
  /\ phase = "connected"
  /\ Handled(f)
  /\ item' = "Text"
  /\ idle' = 0
  /\ UNCHANGED <<phase, conn_timeout, conn_backoff, queries, connects,
                 failures, timeouts, actors, delay, waited>>

\* StreamHandler::handle, Frame::Ping: hb refreshed, a Pong written
Ping ==
  /\ phase = "connected"
  /\ item' = "Ping"
  /\ idle' = 0
  /\ UNCHANGED <<phase, conn_timeout, conn_backoff, queries, connects,
                 failures, timeouts, actors, delay, waited>>
  /\ UNCHANGED <<bookVars, apiVars>>

\* StreamHandler::handle, any other item, an Err(WsProtocolError) among
\* them: nothing is done
Other(kind) ==
  /\ phase = "connected"
  /\ item' = kind
  /\ idle' = IF kind = "Err" THEN idle ELSE 0
  /\ UNCHANGED <<phase, conn_timeout, conn_backoff, queries, connects,
                 failures, timeouts, actors, delay, waited>>
  /\ UNCHANGED <<bookVars, apiVars>>

\* the heartbeat timer, 30 s after the last one: a Ping written and the
\* timer set again
Hb ==
  /\ phase = "connected"
  /\ idle < MaxIdle
  /\ idle' = idle + 1
  /\ UNCHANGED <<phase, conn_timeout, conn_backoff, queries, connects,
                 failures, timeouts, actors, delay, waited, item>>
  /\ UNCHANGED <<bookVars, apiVars>>

\* StreamHandler::finished: the stream ended, ctx.stop()
Finished ==
  /\ phase = "connected"
  /\ phase' = "stopped"
  /\ item' = "none"
  /\ idle' = 0
  /\ waited' = <<>>
  /\ UNCHANGED <<conn_timeout, conn_backoff, queries, connects, failures,
                 timeouts, actors, delay>>
  /\ UNCHANGED <<bookVars, apiVars>>

\* the Supervisor restarts the stopped actor: restarting() makes a connect
\* attempt and waits for it
Restarting ==
  /\ phase = "stopped"
  /\ phase' = "reconnecting"
  /\ UNCHANGED <<conn_timeout, conn_backoff, queries, connects, failures,
                 timeouts, actors, delay, waited, item, idle>>
  /\ UNCHANGED <<bookVars, apiVars>>

\* restarting(), Ok arm, the new stream started without the subscription
\* step
ReconnectOk_without_subscription ==
  /\ phase = "reconnecting"
  /\ connects < MaxConnects
  /\ phase' = "connected"
  /\ conn_backoff' = reset(conn_backoff)
  /\ queries' = <<>>
  /\ connects' = connects + 1
  /\ item' = "none"
  /\ idle' = 0
  /\ UNCHANGED <<conn_timeout, failures, timeouts, actors, delay, waited>>
  /\ UNCHANGED <<bookVars, apiVars>>

\* restarting(), Ok arm: the new stream added (the subscription step runs),
\* the policy reset
\* ReconnectOk leaving the backoff policy as the failed attempts left it
ReconnectOk_without_reset ==
  /\ phase = "reconnecting"
  /\ connects < MaxConnects
  /\ phase' = "connected"
  /\ queries' \in on_connect(trade_pairs, order_book_pairs)
  /\ connects' = connects + 1
  /\ item' = "none"
  /\ idle' = 0
  /\ UNCHANGED <<conn_timeout, conn_backoff, failures, timeouts, actors,
                 delay, waited>>
  /\ UNCHANGED <<bookVars, apiVars>>

ReconnectOk ==
  /\ phase = "reconnecting"
  /\ connects < MaxConnects
  /\ phase' = "connected"
  /\ conn_backoff' = reset(conn_backoff)
  /\ queries' \in on_connect(trade_pairs, order_book_pairs)
  /\ connects' = connects + 1
  /\ item' = "none"
  /\ idle' = 0
  /\ UNCHANGED <<conn_timeout, failures, timeouts, actors, delay, waited>>
  /\ UNCHANGED <<bookVars, apiVars>>

\* ReconnectErr setting no timer: the actor is left without a stream
ReconnectErr_without_retry ==
  /\ phase = "reconnecting"
  /\ failures < MaxFailures
  /\ failures' = failures + 1
  /\ \E r \in next_backoff(conn_backoff) :
       /\ delay' = r.delay
       /\ conn_backoff' = r.backoff
  /\ phase' = "halted"
  /\ waited' = <<>>
  /\ UNCHANGED <<conn_timeout, queries, connects, timeouts, actors, item, idle>>
  /\ UNCHANGED <<bookVars, apiVars>>

\* restarting(), Err arm: ctx.stop() scheduled after the delay
\* next_backoff() gives, nothing scheduled when it gives None
ReconnectErr ==
  /\ phase = "reconnecting"
  /\ failures < MaxFailures
  /\ failures' = failures + 1
  /\ \E r \in next_backoff(conn_backoff) :
       /\ delay' = r.delay
       /\ conn_backoff' = r.backoff
       /\ phase' = IF r.delay # <<>> THEN "backoff" ELSE "halted"
  /\ waited' = <<>>
  /\ UNCHANGED <<conn_timeout, queries, connects, timeouts, actors, item, idle>>
  /\ UNCHANGED <<bookVars, apiVars>>

\* the timer of the Err arm fires: ctx.stop()
BackoffOver ==
  /\ phase = "backoff"
  /\ phase' = "stopped"
  /\ waited' = delay
  /\ conn_backoff' = later(conn_backoff, delay[1])
  /\ UNCHANGED <<conn_timeout, queries, connects, failures, timeouts, actors,
                 delay, item, idle>>
  /\ UNCHANGED <<bookVars, apiVars>>

NextSup ==
  \/ ConnectOk
  \/ ConnectErr
  \/ Slept
  \/ \E f \in SupFrames : Text(f)
  \/ Ping
  \/ \E kind \in {"Err", "Pong"} : Other(kind)
  \/ Hb
  \/ Finished
  \/ Restarting
  \/ ReconnectOk
  \/ ReconnectErr
  \/ BackoffOver

SpecSup == InitSup /\ [][NextSup]_vars

\* timers fire, the Supervisor restarts a stopped actor, and the transport
\* accepts once it has failed MaxFailures times
FairSpecSup ==
  /\ SpecSup
  /\ WF_vars(Slept)
  /\ WF_vars(BackoffOver)
  /\ WF_vars(Restarting)
  /\ WF_vars(ConnectOk)
  /\ WF_vars(ReconnectOk)

----------------------------------------------------------------------------
(* Claims about the view, checked on the deep book (SpecDeep) *)

Range(s) == {s[i] : i \in 1..Len(s)}

StrictlyAscending(s) == \A i \in 1..(Len(s) - 1) : s[i][1] < s[i + 1][1]

Smaller(a, b) == IF a <= b THEN a ELSE b

\* the k lowest / highest keys of a price set
Lowest(D, k) == {p \in D : Cardinality({q \in D : q < p}) < k}
Highest(D, k) == {p \in D : Cardinality({q \in D : q > p}) < k}

\* C1: a view returned by order_book() has at most depth asks and at most
\* depth bids, whatever calls filled the book.
C1_DepthBound ==
  view # <<>> =>
    /\ Len(view[1].asks) <= book.depth
    /\ Len(view[1].bids) <= book.depth

\* both maps hold more levels than depth and the view was cut to depth
C1_Witness ==
  /\ view # <<>>
  /\ Cardinality(DOMAIN book.asks_by_price) > book.depth
  /\ Cardinality(DOMAIN book.bids_by_price) > book.depth
  /\ Len(view[1].asks) = book.depth
  /\ Len(view[1].bids) = book.depth

\* C2: the asks of a view returned by order_book() are strictly ascending
\* by price.
C2_AsksAscending == view # <<>> => StrictlyAscending(view[1].asks)

C4_ViewIsTopOfBook ==
  view # <<>> =>
    LET A == DOMAIN book.asks_by_price
        B == DOMAIN book.bids_by_price
    IN /\ Range(view[1].asks) =
            {book.asks_by_price[p] : p \in Lowest(A, book.depth)}
       /\ Len(view[1].asks) = Smaller(book.depth, Cardinality(A))
       /\ Range(view[1].bids) =
            {book.bids_by_price[p] : p \in Highest(B, book.depth)}
       /\ Len(view[1].bids) = Smaller(book.depth, Cardinality(B))

\* the view leaves out the highest ask and the lowest bid of the maps
C4_Witness ==
  /\ view # <<>>
  /\ Cardinality(DOMAIN book.asks_by_price) > book.depth
  /\ Cardinality(DOMAIN book.bids_by_price) > book.depth
  /\ Len(view[1].asks) = book.depth
  /\ \E p \in DOMAIN book.bids_by_price :
        /\ book.bids_by_price[p] \notin Range(view[1].bids)
        /\ \A e \in Range(view[1].bids) : p < e[1]
  /\ \E p \in DOMAIN book.asks_by_price :
        /\ book.asks_by_price[p] \notin Range(view[1].asks)
        /\ \A e \in Range(view[1].asks) : e[1] < p

----------------------------------------------------------------------------
(* Claims about single calls, checked on the call sequences (SpecBook) *)

\* the last call handed exactly one level to op
SingleLevel(ops) == call.op \in ops /\ Len(call.arg) = 1

\* m2 is m1 with the level kp added
Added(m1, m2, kp) ==
  /\ DOMAIN m2 = DOMAIN m1 \cup {kp[1]}
  /\ m2[kp[1]] = kp
  /\ \A q \in DOMAIN m1 : m2[q] = m1[q]

\* m2 is m1 without the level at price p
Removed(m1, m2, p) ==
  /\ DOMAIN m2 = DOMAIN m1 \ {p}
  /\ \A q \in DOMAIN m2 : m2[q] = m1[q]

\* C5: update_bids applies bid changes to the bid map and to it only: a
\* non-zero change at a price absent from the bid map adds the bid level, a
\* zero-volume change removes the bid level, the ask map stays as it was.
C5_BidChangesGoToBids ==
  SingleLevel({"update_bids"}) =>
    LET kp == call.arg[1] IN
    /\ (kp[2] # 0 /\ kp[1] \notin DOMAIN prev.bids_by_price)
          => Added(prev.bids_by_price, book.bids_by_price, kp)
    /\ kp[2] = 0 => kp[1] \notin DOMAIN book.bids_by_price
    /\ book.asks_by_price = prev.asks_by_price

ExampleSnapshot == <<(<<100, 1>>), (<<101, 2>>)>>
ExampleDelta == <<99, 3>>

\* C6: an ask delta with non-zero volume adds its level when the price is
\* absent and leaves the ask map as it was when the price is present; after
\* reset_asks [(100,1),(101,2)] and update_asks (99,3) the ask map holds
\* exactly the levels 99, 100 and 101.
C6_AskDeltaAddsOnlyIfAbsent ==
  (SingleLevel({"update_asks", "update_ask"}) /\ call.arg[1][2] # 0) =>
    LET kp == call.arg[1] IN
    /\ kp[1] \notin DOMAIN prev.asks_by_price
          => Added(prev.asks_by_price, book.asks_by_price, kp)
    /\ kp[1] \in DOMAIN prev.asks_by_price
          => book.asks_by_price = prev.asks_by_price
    /\ (prev = reset_asks(default(BookPair), ExampleSnapshot) /\ kp = ExampleDelta)
          => /\ DOMAIN book.asks_by_price = {99, 100, 101}
             /\ book.asks_by_price[99] = <<99, 3>>
             /\ book.asks_by_price[100] = <<100, 1>>
             /\ book.asks_by_price[101] = <<101, 2>>

\* the example: update_asks (99,3) on the book reset with [(100,1),(101,2)]
C6_Witness ==
  /\ call.op = "update_asks"
  /\ call.arg = <<ExampleDelta>>
  /\ prev = reset_asks(default(BookPair), ExampleSnapshot)
  /\ Cardinality(DOMAIN book.asks_by_price) = 3

\* C7: an ask delta with zero volume at a stored price removes that level
\* and no other; the same delta applied again, the price now absent, leaves
\* the whole book as it is.
C7_AskZeroDeltaRemoves ==
  /\ (SingleLevel({"update_asks", "update_ask"}) /\ call.arg[1][2] = 0) =>
       LET p == call.arg[1][1] IN
       /\ Removed(prev.asks_by_price, book.asks_by_price, p)
       /\ book = [prev EXCEPT !.asks_by_price = book.asks_by_price]
       /\ p \notin DOMAIN prev.asks_by_price => book = prev
  /\ (/\ call.op = "update_asks"
      /\ Len(call.arg) = 2
      /\ call.arg[1] = call.arg[2]
      /\ call.arg[1][2] = 0) =>
       /\ Removed(prev.asks_by_price, book.asks_by_price, call.arg[1][1])
       /\ book = [prev EXCEPT !.asks_by_price = book.asks_by_price]

\* the zero-volume delta applied twice to a book that stored its price
\* next to another level
C7_Witness ==
  /\ call.op = "update_asks"
  /\ Len(call.arg) = 2
  /\ call.arg[1] = call.arg[2]
  /\ call.arg[1][2] = 0
  /\ call.arg[1][1] \in DOMAIN prev.asks_by_price
  /\ Cardinality(DOMAIN prev.asks_by_price) = 2
  /\ Cardinality(DOMAIN book.asks_by_price) = 1

\* the first level of the iterator it at price p
RECURSIVE FirstAt(_, _)
FirstAt(it, p) == IF it[1][1] = p THEN it[1] ELSE FirstAt(Tail(it), p)

\* m2 is m1 with, for each price of it absent from m1, the first level of it
\* at that price
InsertedIfAbsent(m1, m2, it) ==
  /\ DOMAIN m2 = DOMAIN m1 \cup {kp[1] : kp \in Range(it)}
  /\ \A q \in DOMAIN m1 : m2[q] = m1[q]
  /\ \A q \in DOMAIN m2 \ DOMAIN m1 : m2[q] = FirstAt(it, q)

\* C8: reset_asks / reset_bids insert a level only if its price is absent
\* from that side's map: a stored level keeps its volume, the first of the
\* levels of one snapshot at the same price wins, stored levels at other
\* prices are kept.
C8_ResetInsertsOnlyIfAbsent ==
  /\ call.op = "reset_asks" =>
       InsertedIfAbsent(prev.asks_by_price, book.asks_by_price, call.arg)
  /\ call.op = "reset_bids" =>
       InsertedIfAbsent(prev.bids_by_price, book.bids_by_price, call.arg)

\* a snapshot whose first level is at a stored price, with another volume,
\* and whose second level is at a new price
C8_Witness ==
  /\ call.op = "reset_asks"
  /\ Len(call.arg) = 2
  /\ call.arg[1][1] \in DOMAIN prev.asks_by_price
  /\ call.arg[1] # prev.asks_by_price[call.arg[1][1]]
  /\ call.arg[2][1] \notin DOMAIN prev.asks_by_price
  /\ Cardinality(DOMAIN prev.asks_by_price) = 2

\* C10: no level of zero volume is ever stored by a snapshot, so no view
\* returned by order_book() holds a level of zero volume.
C10_NoZeroVolumeLevel ==
  LET v == order_book(book) IN
  \A e \in Range(v.asks) \cup Range(v.bids) : e[2] # 0

----------------------------------------------------------------------------
(* Claims about the frame handler, checked on Spec *)

\* the last frame was a decoded snapshot of a known pair
SnapshotHandled ==
  /\ frame.method = "QE2"
  /\ frame.payload.ok
  /\ get_pair_enum(frame.payload.MarketName) # <<>>

\* C9: once a snapshot frame of a pair is handled, the ask map and the bid
\* map of the pair hold exactly the levels of the snapshot, none from before.
C9_SnapshotReplaces ==
  SnapshotHandled =>
    LET b == books[get_pair_enum(frame.payload.MarketName)[1]] IN
    /\ Range(iter(b.asks_by_price)) = Range(frame.payload.Sells)
    /\ Range(iter(b.bids_by_price)) = Range(frame.payload.Buys)

----------------------------------------------------------------------------
(* Claims about latest_order_book, checked on the call sequences (SpecBook) *)

\* C11: latest_order_book() called again, no reset_* / update_* call in
\* between, returns None, whatever the first call returned.
C11_SecondCallReturnsNone ==
  call.op = "latest_order_book" => latest_order_book(book).result = <<>>

\* the first call returned a view of a book that holds levels
C11_Witness ==
  /\ call.op = "latest_order_book"
  /\ call.ret # <<>>
  /\ call.ret[1].asks # <<>>
  /\ latest_order_book(book).result = <<>>

\* C12: latest_order_book() leaves the ask map and the bid map alone; when
\* it returns None the cache is as before; when it returns Some(view) the
\* cache holds the asks and bids of view, and view differs from the cache
\* as it was in at least one side.
C12_LatestOrderBookEffect ==
  call.op = "latest_order_book" =>
    /\ book.asks_by_price = prev.asks_by_price
    /\ book.bids_by_price = prev.bids_by_price
    /\ book.depth = prev.depth /\ book.pair = prev.pair
    /\ call.ret = <<>> => book = prev
    /\ call.ret # <<>> =>
         /\ book.last_asks = call.ret[1].asks
         /\ book.last_bids = call.ret[1].bids
         /\ \/ call.ret[1].asks # prev.last_asks
            \/ call.ret[1].bids # prev.last_bids

\* a view with bids returned and cached
C12_Witness ==
  /\ call.op = "latest_order_book"
  /\ call.ret # <<>>
  /\ call.ret[1].bids # <<>>
  /\ prev.last_bids = <<>>
  /\ book.last_bids = call.ret[1].bids

----------------------------------------------------------------------------
(* Claims about the frame handler (Spec) *)

\* the order-book events of pair p among the envelopes recipient i received
BookEventsOf(i, p) ==
  LET IsBookOf(e) == e[2].type = "LiveOrderbook" /\ e[2].ob.pair = p
  IN SelectSeq(inbox[i], IsBookOf)

\* C13: after any sequence of snapshot and market-delta frames, the cached
\* last_asks / last_bids of every pair equal the asks / bids of the most
\* recent order-book event dispatched for that pair, and are empty if none
\* was dispatched.
C13_CacheIsLastDispatched ==
  \A p \in DOMAIN books :
    LET evs == BookEventsOf(1, p) IN
    IF evs = <<>>
    THEN books[p].last_asks = <<>> /\ books[p].last_bids = <<>>
    ELSE /\ books[p].last_asks = evs[Len(evs)][2].ob.asks
         /\ books[p].last_bids = evs[Len(evs)][2].ob.bids

\* the ask map and the bid map of pair p in bks, empty when p has no book
LevelsOf(bks, p) ==
  IF p \in DOMAIN bks
  THEN <<bks[p].asks_by_price, bks[p].bids_by_price>>
  ELSE <<EmptyMap, EmptyMap>>

\* C14: a snapshot frame that changes no price level of the book of its
\* pair (the same snapshot received again, for one) produces no order-book
\* event.
C14_UnchangedSnapshotIsSilent ==
  LET p == get_pair_enum(frame.payload.MarketName) IN
  (/\ SnapshotHandled
   /\ p[1] \in DOMAIN prevBooks
   /\ LevelsOf(books, p[1]) = LevelsOf(prevBooks, p[1])) =>
    \A k \in 1..Len(sent) : sent[k].type # "LiveOrderbook"

\* the last frame was a market delta or a snapshot whose payload failed to
\* decode
DecodeFailed == frame.method \in {"uE", "QE2"} /\ ~frame.payload.ok

\* C15: a market-delta or snapshot frame whose payload fails to decode does
\* not panic the handler, leaves every book as it was and dispatches nothing,
\* so that frames after it are handled as if it had not arrived.
C15_DecodeFailureIsHarmless ==
  DecodeFailed => (~panicked /\ books = prevBooks /\ sent = <<>>)

\* the last frame was a decoded market delta or snapshot of no known pair
UnknownMarketHandled ==
  /\ frame.method \in {"uE", "QE2"}
  /\ frame.payload.ok
  /\ get_pair_enum(frame.payload.MarketName) = <<>>

\* C16: a decoded market-delta or snapshot frame whose market name maps to
\* no known pair is dropped: no event is dispatched, no book is created and
\* no book changes.
C16_UnknownMarketDropped ==
  UnknownMarketHandled =>
    /\ sent = <<>>
    /\ sends = <<>>
    /\ books = prevBooks
    /\ ~panicked

\* a frame of an unknown market that carries levels and fills, handled when
\* a book already holds levels
C16_Witness ==
  /\ UnknownMarketHandled
  /\ frame.payload.Sells # <<>>
  /\ frame.method = "uE" /\ frame.payload.Fills # <<>>
  /\ \E p \in DOMAIN books : books[p].asks_by_price # EmptyMap
  /\ sent = <<>> /\ books = prevBooks

\* C17: every order-book event dispatched is for a pair of the
\* LiveFullOrderBook set, every trade event dispatched is for a pair of the
\* LiveTrades set, and a book exists only for a pair of the
\* LiveFullOrderBook set, for market-delta and snapshot frames alike.
C17_FilteredBySubscription ==
  /\ \A i \in 1..Len(Recipients) : \A k \in 1..Len(inbox[i]) :
       LET le == inbox[i][k][2] IN
       /\ le.type = "LiveOrderbook" => le.ob.pair \in order_book_pairs
       /\ le.type = "LiveTrade" => le.pair \in trade_pairs
  /\ DOMAIN books \subseteq order_book_pairs

\* the envelopes of a list of events
Envelopes(events) ==
  [k \in 1..Len(events) |-> LiveEventEnveloppe(events[k])]

\* C18: events are dispatched in frame arrival order: what a frame sends to
\* a recipient comes after all events of the frames before it, in the order
\* the frame produced it; and an order-book event of a market-delta
\* frame carries the view of the book as it is once the changes of that
\* frame and of all frames before it are applied, never an older one.
C18_ArrivalOrderCurrentView ==
  [][nframes' = nframes + 1 =>
       /\ \A i \in 1..Len(Recipients) :
            \E n \in 0..Len(sent') :
              inbox'[i] = inbox[i] \o SubSeq(Envelopes(sent'), 1, n)
       /\ frame'.method = "uE" =>
            \A k \in 1..Len(sent') :
              sent'[k].type = "LiveOrderbook" =>
                sent'[k].ob = order_book(books'[sent'[k].ob.pair])]_vars

\* a second market delta whose order-book event follows, at every recipient,
\* an order-book event of the same pair with another view
C18_Witness ==
  /\ nframes = 2
  /\ frame.method = "uE"
  /\ Len(sent) = 2
  /\ sent[1].type = "LiveOrderbook"
  /\ sent[1].ob = order_book(books[sent[1].ob.pair])
  /\ \A i \in 1..Len(Recipients) :
       /\ Len(inbox[i]) = 3
       /\ inbox[i][1][2].type = "LiveOrderbook"
       /\ inbox[i][1][2].ob.pair = sent[1].ob.pair
       /\ inbox[i][1][2].ob # sent[1].ob
       /\ inbox[i][2] = LiveEventEnveloppe(sent[1])

----------------------------------------------------------------------------
(* Claims about the dispatch loop, checked with recipients that may stop    *)
(* (SpecFanout)                                                             *)

\* the last Len(sent) envelopes recipient i received
LastReceived(i) ==
  SubSeq(inbox[i], Len(inbox[i]) - Len(sent) + 1, Len(inbox[i]))

\* C19: publishing an event delivers one copy of it, tagged with the
\* exchange, to every registered recipient, in registration order: with the
\* three recipients registered, the do_send calls of a frame whose sends all
\* succeed are, event by event, one to each recipient from the first
\* registered to the last, and each recipient receives exactly the events of
\* the frame, one copy of each.
C19_OneCopyEachInRegistrationOrder ==
  LET n == Len(Recipients) IN
  (\A j \in 1..Len(sends) : sends[j].ok) =>
    /\ Len(sends) = Len(sent) * n
    /\ \A k \in 1..Len(sent) : \A i \in 1..n :
         sends[(k - 1) * n + i] =
           [to |-> i, msg |-> <<"Bittrex", sent[k]>>, ok |-> TRUE]
    /\ \A i \in 1..n :
         /\ Len(inbox[i]) >= Len(sent)
         /\ LastReceived(i) = Envelopes(sent)

\* a frame that produced an order-book event and a trade event, each sent
\* to the three recipients
C19_Witness ==
  /\ Len(Recipients) = 3
  /\ Len(sent) = 2
  /\ sent[1].type = "LiveOrderbook" /\ sent[2].type = "LiveTrade"
  /\ Len(sends) = 6
  /\ \A j \in 1..Len(sends) : sends[j].ok
  /\ \A i \in 1..3 : LastReceived(i) = Envelopes(sent)

\* C20: when sending to a recipient fails because it has gone away, the
\* publish does not fail: the handler does not panic, so it goes on with
\* later frames, and every recipient still there receives the events of the
\* frame.
C20_PublishSurvivesGoneRecipient ==
  (\E j \in 1..Len(sends) : ~sends[j].ok) =>
    /\ ~panicked
    /\ \A i \in (1..Len(Recipients)) \ gone :
         /\ Len(inbox[i]) >= Len(sent)
         /\ LastReceived(i) = Envelopes(sent)

----------------------------------------------------------------------------
(* Claims about the connection supervisor (SpecSup, FairSpecSup) *)

\* connected again after a connection was lost, no item of the new stream
\* handled yet
Reconnected ==
  /\ phase = "connected"
  /\ connects > 1
  /\ item = "none"

\* C21: after a transport failure and a successful reconnect the book of
\* every order-book pair has an empty ask map, an empty bid map and an empty
\* cache until the next snapshot or delta frame arrives, whatever it held
\* before.
C21_ReconnectStartsFromEmptyBooks ==
  Reconnected =>
    \A p \in order_book_pairs :
      /\ books[p].asks_by_price = EmptyMap
      /\ books[p].bids_by_price = EmptyMap
      /\ books[p].last_asks = <<>>
      /\ books[p].last_bids = <<>>

\* the positions in queries of the requests of a method for a pair
RequestsFor(method, p) ==
  {i \in 1..Len(queries) : queries[i] = HubQuery(method, p)}

\* C22: on every successful connect, the first and every reconnect, one
\* QueryExchangeState request is issued for each pair of the LiveFullOrderBook
\* set.
C22_SnapshotRequestedOnEveryConnect ==
  phase = "connected" =>
    \A p \in order_book_pairs :
      Cardinality(RequestsFor("QueryExchangeState", p)) = 1

\* the number of channels pair p is requested on
ChannelsOf(p) ==
  (IF p \in trade_pairs THEN 1 ELSE 0) + (IF p \in order_book_pairs THEN 1 ELSE 0)

\* C23 as stated: on connect one subscription request is issued per
\* (channel, pair), so a pair requested on both channels gives rise to two
\* subscription requests.
C23_OneRequestPerChannelAndPair ==
  phase = "connected" =>
    \A p \in Pairs :
      Cardinality(RequestsFor("SubscribeToExchangeDeltas", p)) = ChannelsOf(p)

\* C23, amended: on connect one subscription request is issued per pair
\* requested on at least one channel; a pair requested on both the
\* LiveTrades and the LiveFullOrderBook channel gives rise to one
\* subscription request, a pair requested on neither to none.
C23_OneRequestPerRequestedPair ==
  phase = "connected" =>
    \A p \in Pairs :
      Cardinality(RequestsFor("SubscribeToExchangeDeltas", p)) =
        IF ChannelsOf(p) > 0 THEN 1 ELSE 0

\* connected with a pair requested on both channels, one request for it
C23_Witness ==
  /\ phase = "connected"
  /\ \E p \in Pairs :
       /\ ChannelsOf(p) = 2
       /\ Cardinality(RequestsFor("SubscribeToExchangeDeltas", p)) = 1

\* the subscription requests among the queries of the latest connect
Subscriptions ==
  LET IsSubscription(q) == q.method = "SubscribeToExchangeDeltas"
  IN SelectSeq(queries, IsSubscription)

\* C24: the subscription requests built on connect are the minimal set: as
\* many SubscribeToExchangeDeltas requests as there are distinct pairs in the
\* union of the trade pairs and the order-book pairs, one for the market of
\* each, and no query at all when both sets are empty.
C24_MinimalSubscriptionRequests ==
  phase = "connected" =>
    LET all == trade_pairs \cup order_book_pairs IN
    /\ Len(Subscriptions) = Cardinality(all)
    /\ {Subscriptions[i].arg : i \in 1..Len(Subscriptions)} =
         {get_pair_string(p) : p \in all}
    /\ all = {} => queries = <<>>

\* reconnected with two pairs requested, one of them on both channels
C24_Witness ==
  /\ phase = "connected"
  /\ connects = 2
  /\ trade_pairs = {"BTC_USDT"}
  /\ order_book_pairs = {"BTC_USDT", "ETH_USDT"}
  /\ Len(queries) = 2

\* C25: after the peer closes the stream while connected, the supervisor
\* eventually makes a new connect attempt; whenever a connect succeeds the
\* subscription step has run and issued the requests of on_connect() for the
\* subscription sets; and no step changes the subscription sets, so the
\* requests are those of the initial connect.
C25_ResubscribesAfterRemoteClose ==
  /\ (phase = "stopped") ~> (phase = "reconnecting")
  /\ [](phase = "connected" =>
          Subscriptions \in on_connect(trade_pairs, order_book_pairs))
  /\ [][/\ trade_pairs' = trade_pairs
        /\ order_book_pairs' = order_book_pairs]_vars

\* connected a second time, the subscription requests issued again
C25_Witness ==
  /\ phase = "connected"
  /\ connects = 2
  /\ failures > 0
  /\ Len(Subscriptions) = 2
  /\ Subscriptions = queries

\* C26: while connected, once MaxIdle heartbeat periods have gone by with no
\* item at all from the peer, the supervisor has left the connected state.
C26_IdleTimeoutLeavesConnected ==
  idle >= MaxIdle => phase # "connected"

\* C27: an error item reported on the inbound stream moves the supervisor
\* out of the connected state.
C27_StreamErrorLeavesConnected ==
  item = "Err" => phase # "connected"

\* C28: in the initial connect loop with a maximum elapsed time configured,
\* a failed attempt made after the maximum has run out returns
\* BackoffConnectionTimeout; the error is returned once at most; when it has
\* been returned no connect has succeeded and no supervised actor has been
\* started; and no step at all follows it.
C28_InitialTimeoutReturnedOnce ==
  /\ [][(/\ phase = "connecting"
          /\ failures' = failures + 1
          /\ conn_backoff.max_elapsed_time # <<>>
          /\ conn_backoff.elapsed > conn_backoff.max_elapsed_time[1])
        => (phase' = "failed" /\ timeouts' = timeouts + 1)]_vars
  /\ [](timeouts <= 1)
  /\ [](phase = "failed" => (/\ timeouts = 1
                             /\ conn_timeout # <<>>
                             /\ actors = 0
                             /\ connects = 0
                             /\ queries = <<>>))
  /\ [][phase # "failed"]_vars

\* the initial connect has failed for good after two failed attempts
C28_Witness ==
  /\ phase = "failed"
  /\ conn_timeout = <<500>>
  /\ failures = 2
  /\ timeouts = 1
  /\ actors = 0

\* C29: with a maximum elapsed time configured, no retry is scheduled after
\* a failed reconnect attempt once the waits of the reconnection cycle have
\* exceeded the maximum: the supervisor has stopped retrying instead.
C29_MaxElapsedBoundsReconnection ==
  (conn_timeout # <<>> /\ phase = "backoff")
    => conn_backoff.elapsed <= conn_timeout[1]

\* C30: with no maximum elapsed time configured, the backoff-exhausted error
\* is never returned and the supervisor never stops retrying; every wait
\* after a failed attempt, initial or reconnect, leads to another attempt;
\* and, the transport accepting in the end, the supervisor gets connected
\* (as long as the run has a connect left, for the reconnects).
C30_NoMaximumRetriesForever ==
  /\ [](conn_timeout = <<>> =>
          (timeouts = 0 /\ phase \notin {"failed", "halted"}))
  /\ (conn_timeout = <<>> /\ phase = "sleeping") ~> (phase = "connecting")
  /\ (conn_timeout = <<>> /\ phase = "backoff") ~> (phase = "reconnecting")
  /\ (conn_timeout = <<>> /\ phase \in {"connecting", "sleeping"})
       ~> (phase = "connected")
  /\ (/\ conn_timeout = <<>>
      /\ phase \in {"stopped", "reconnecting", "backoff"}
      /\ connects < MaxConnects)
       ~> (phase = "connected")

\* connected again with no maximum configured, after failed attempts of the
\* initial connect and of the reconnect
C30_Witness ==
  /\ conn_timeout = <<>>
  /\ phase = "connected"
  /\ connects = 2
  /\ failures = MaxFailures
  /\ waited # <<>>
  /\ waited # <<SleepMillis>>

\* the delays next_backoff() gives in the initial state of the policy
InitialDelays ==
  {r.delay : r \in next_backoff(ExponentialBackoff_default)}

\* C31: whenever the supervisor is connected, after the initial connect or
\* a reconnect, the backoff policy is in its initial state (initial interval,
\* no time elapsed); and the delay returned for the first failed reconnect
\* attempt after a connection loss is an initial delay of the policy.
C31_ConnectResetsBackoff ==
  /\ [](phase = "connected" =>
          /\ conn_backoff.current_interval = INITIAL_INTERVAL_MILLIS
          /\ conn_backoff.elapsed = 0)
  /\ [][(/\ phase = "reconnecting"
          /\ waited = <<>>
          /\ failures' = failures + 1)
        => delay' \in InitialDelays]_vars

\* the first reconnect attempt after the second connect has failed, attempts
\* having failed before that connect
C31_Witness ==
  /\ phase = "backoff"
  /\ connects = 2
  /\ failures >= 2
  /\ conn_backoff.elapsed = 0
  /\ delay \in InitialDelays

\* C32: once the supervisor has been stopped it stays stopped: no step takes
\* it to a connect or reconnect attempt.
C32_StopIsTerminal ==
  [][phase = "stopped" => phase' = "stopped"]_vars

----------------------------------------------------------------------------
(* Claims about the average price of a view (SpecDeep)                      *)

\* the prices of a side of a view
PricesOf(side) == {side[i][1] : i \in 1..Len(side)}

\* C33: for the view returned by order_book(), avg_price() is None exactly
\* when the asks or the bids of the view are empty, and otherwise it is
\* (lowest ask price of the view + highest bid price of the view) / 2.
C33_AvgPriceIsMidOfBestPrices ==
  view # <<>> =>
    LET ob == view[1]
        empty == ob.asks = <<>> \/ ob.bids = <<>>
    IN /\ (avg_price(ob) = <<>>) <=> empty
       /\ ~empty =>
            avg_price(ob) =
              <<[num |-> Min(PricesOf(ob.asks))
                         + CHOOSE x \in PricesOf(ob.bids) :
                             \A y \in PricesOf(ob.bids) : y <= x,
                 den |-> 2]>>

----------------------------------------------------------------------------
(* Further claims about the frame handler (Spec, SpecTrades)                *)

\* the last frame was a decoded market delta of a known pair
DeltaHandled ==
  /\ frame.method = "uE"
  /\ frame.payload.ok
  /\ get_pair_enum(frame.payload.MarketName) # <<>>

\* the order-book events of pair p recipient 1 had received before the last
\* frame
EarlierBookEvents(p) ==
  LET IsBookOf(e) == e[2].type = "LiveOrderbook" /\ e[2].ob.pair = p
  IN SelectSeq(SubSeq(inbox[1], 1, Len(inbox[1]) - Len(sent)), IsBookOf)

\* C34: a market delta of an order-book pair after which the view of the
\* pair has the asks and bids of the last order-book event dispatched for
\* the pair produces no order-book event.
C34_UnchangedViewIsSilent ==
  LET p == get_pair_enum(frame.payload.MarketName) IN
  (/\ DeltaHandled
   /\ p[1] \in order_book_pairs
   /\ EarlierBookEvents(p[1]) # <<>>
   /\ LET last == EarlierBookEvents(p[1])[Len(EarlierBookEvents(p[1]))][2].ob
          now == order_book(books[p[1]])
      IN now.asks = last.asks /\ now.bids = last.bids) =>
    \A k \in 1..Len(sent) : sent[k].type # "LiveOrderbook"

\* the trade events among the events of the last frame
TradesSent ==
  LET IsTrade(e) == e.type = "LiveTrade" IN SelectSeq(sent, IsTrade)

\* C35: a market delta of a pair of the LiveTrades set produces one trade
\* event per fill, in the order of the fills; a market delta of any other
\* pair produces none; the trade events come after the order-book event of
\* the frame; and every recipient receives the events in that order, all of
\* them when no send of the frame fails and otherwise those sent to it up to
\* the failing send.
C35_OneTradePerFillAfterBook ==
  LET p == get_pair_enum(frame.payload.MarketName)
      fills == frame.payload.Fills
  IN DeltaHandled =>
       /\ p[1] \in trade_pairs =>
            /\ Len(TradesSent) = Len(fills)
            /\ \A k \in 1..Len(fills) :
                 /\ TradesSent[k].pair = p[1]
                 /\ TradesSent[k].price = fills[k].Rate
                 /\ TradesSent[k].amount = fills[k].Quantity
                 /\ TradesSent[k].event_ms = fills[k].TimeStamp
       /\ p[1] \notin trade_pairs => TradesSent = <<>>
       /\ \A j, k \in 1..Len(sent) :
            (sent[j].type = "LiveOrderbook" /\ sent[k].type = "LiveTrade")
              => j < k
       /\ \A i \in 1..Len(Recipients) :
            LET n == Cardinality({j \in 1..Len(sends) :
                                    sends[j].to = i /\ sends[j].ok})
            IN /\ SubSeq(inbox[i], Len(inbox[i]) - n + 1, Len(inbox[i]))
                    = SubSeq(Envelopes(sent), 1, n)
               /\ (\A j \in 1..Len(sends) : sends[j].ok) => n = Len(sent)

\* a delta with two different fills and an ask, of a pair of both sets: the
\* order-book event, then the two trades
C35_Witness ==
  /\ DeltaHandled
  /\ Len(frame.payload.Fills) = 2
  /\ frame.payload.Fills[1] # frame.payload.Fills[2]
  /\ Len(sent) = 3
  /\ sent[1].type = "LiveOrderbook"
  /\ sent[2].type = "LiveTrade" /\ sent[2].price = frame.payload.Fills[1].Rate
  /\ sent[3].type = "LiveTrade" /\ sent[3].price = frame.payload.Fills[2].Rate
  /\ \A i \in 1..Len(Recipients) : LastReceived(i) = Envelopes(sent)

\* C37: a frame whose method is "uS", or any other than "uE" and a "QE" id,
\* dispatches no event and leaves every book, its last-emitted cache
\* included, as it was, whether its payload decodes or not; nor does it
\* stop the handler.
C37_OtherFramesHaveNoEffect ==
  (nframes > 0 /\ frame.method \notin {"uE", "QE2"}) =>
    /\ sent = <<>>
    /\ sends = <<>>
    /\ books = prevBooks
    /\ ~panicked

\* a summary delta whose payload decodes, naming the market of a book that
\* holds levels
C37_Witness ==
  /\ nframes = 2
  /\ frame.method = "uS"
  /\ frame.payload.ok
  /\ frame.payload.MarketName = "USDT-BTC"
  /\ "BTC_USDT" \in DOMAIN books
  /\ books["BTC_USDT"].asks_by_price # EmptyMap
  /\ books = prevBooks
  /\ sent = <<>>

\* the pair an event carries
PairOf(le) == IF le.type = "LiveOrderbook" THEN le.ob.pair ELSE le.pair

\* C38: a decoded market-delta or snapshot frame of pair A leaves the book
\* of every other pair as it was (ask map, bid map and last-emitted cache),
\* creates no book for another pair, and every event it produces carries
\* pair A.
C38_OtherPairsUntouched ==
  LET A == get_pair_enum(frame.payload.MarketName) IN
  (DeltaHandled \/ SnapshotHandled) =>
    /\ \A B \in (DOMAIN books \cup DOMAIN prevBooks) \ {A[1]} :
         /\ B \in DOMAIN books
         /\ B \in DOMAIN prevBooks
         /\ books[B] = prevBooks[B]
    /\ \A k \in 1..Len(sent) : PairOf(sent[k]) = A[1]

\* a snapshot of one pair handled while the book of the other pair holds
\* levels
C38_Witness ==
  /\ SnapshotHandled
  /\ frame.payload.MarketName = "USDT-BTC"
  /\ frame.payload.Sells # <<>>
  /\ "ETH_USDT" \in DOMAIN books
  /\ books["ETH_USDT"].asks_by_price # EmptyMap
  /\ books["ETH_USDT"] = prevBooks["ETH_USDT"]
  /\ sent # <<>>

\* C36: the wait made after a failed connect attempt is the delay the
\* backoff policy returned for that failure, in the initial connect loop
\* and in the reconnection cycle.
C36_WaitIsPolicyDelay ==
  waited # <<>> => waited = delay

====
